---- MODULE Spec2Model ----
(***************************************************************************)
(* Model of merkle/src/lib.rs: main() takes the mountpoint from the        *)
(* command line and hands the unit struct NullFS, whose Filesystem impl    *)
(* block is empty, to fuser::mount2 with the single option AutoUnmount.    *)
(*                                                                         *)
(* The process (main), the kernel side of the mount (request queue,        *)
(* unmount, the auto-unmount helper) and the session loop that mount2 runs *)
(* are modelled.  Every Filesystem method NullFS does not define is the    *)
(* trait's provided method.                                                *)
(***************************************************************************)
EXTENDS Integers, Sequences, FiniteSets, TLC

\* ------------------------------------------------------------------ bounds

\* Number of requests the kernel issues in one run.
MaxRequests == 3

\* ------------------------------------------------------------ input domains

\* Command lines: args_os() yields the program name, then the positionals.
ArgLists == { <<"merkle">>, <<"merkle", "/mnt">> }

\* Inode numbers requests carry (1 is the root inode of a FUSE mount).
Inodes == {1}
Names == {"a"}
Fhs == {0}
Offsets == {0}
Datas == { <<7, 9>> }

\* The request kinds of the kernel protocol that the specification names.
Kinds == { "lookup", "getattr", "read", "write", "readdir", "open", "opendir",
           "release", "releasedir", "mkdir", "create", "unlink", "rmdir",
           "rename" }

NoData == << >>

MkReq(kind, ino, name, fh, offset, data, size) ==
    [kind |-> kind, ino |-> ino, name |-> name, fh |-> fh,
     offset |-> offset, data |-> data, size |-> size]

\* Decoded requests, one shape for all kinds; unused fields hold a default.
Requests ==
    { MkReq(k, i, n, 0, 0, NoData, 0) :
        k \in {"lookup", "mkdir", "create", "unlink", "rmdir", "rename"},
        i \in Inodes, n \in Names }
    \cup { MkReq(k, i, "", 0, 0, NoData, 0) :
        k \in {"getattr", "open", "opendir"}, i \in Inodes }
    \cup { MkReq(k, i, "", h, 0, NoData, 0) :
        k \in {"release", "releasedir"}, i \in Inodes, h \in Fhs }
    \cup { MkReq(k, i, "", h, o, NoData, Len(d)) :
        k \in {"read", "readdir"}, i \in Inodes, h \in Fhs, o \in Offsets,
        d \in Datas }
    \cup { MkReq("write", i, "", h, o, d, Len(d)) :
        i \in Inodes, h \in Fhs, o \in Offsets, d \in Datas }

\* ------------------------------------------------------------------ replies

ReplyError(errno) ==
    [tag |-> "error", errno |-> errno, fh |-> 0, ino |-> 0, gen |-> 0,
     data |-> NoData]
ReplyOpened(fh) ==
    [tag |-> "opened", errno |-> "", fh |-> fh, ino |-> 0, gen |-> 0,
     data |-> NoData]
ReplyEmpty ==
    [tag |-> "ok", errno |-> "", fh |-> 0, ino |-> 0, gen |-> 0,
     data |-> NoData]
ReplyImpl ==
    [tag |-> "impl", errno |-> "", fh |-> 0, ino |-> 0, gen |-> 0,
     data |-> NoData]

\* ------------------------------------------------------------------ NullFS

\* struct NullFS;  -- a unit struct: the value has no fields.
NullFS == << >>

\* A faulty impl block that defines getattr itself.
ImplementedOverride == {"getattr"}

\* impl Filesystem for NullFS {}  -- the methods the impl block defines.
Implemented == {}

\* Method resolution: a method of the impl block, else the trait's provided one.
Handler(kind) == IF kind \in Implemented THEN "NullFS" ELSE "Filesystem"

\* The provided methods of the Filesystem trait that NullFS inherits: open
\* and opendir reply opened(fh 0, flags 0), release and releasedir reply ok,
\* every other kind replies the error ENOSYS.  None touches self.
DefaultReply(req) ==
    CASE req.kind \in {"open", "opendir"} -> ReplyOpened(0)
      [] req.kind \in {"release", "releasedir"} -> ReplyEmpty
      [] OTHER -> ReplyError("ENOSYS")

HandlerReply(req) ==
    IF Handler(req.kind) = "Filesystem" THEN DefaultReply(req) ELSE ReplyImpl

\* -------------------------------------------------------------------- main

None == << >>
Some(x) == << x >>

\* Iterator::nth(n): the element at index n (from 0), if there is one.
Nth(s, n) == IF n + 1 <= Len(s) THEN Some(s[n + 1]) ELSE None

\* A faulty variant that falls back to an empty path (unwrap_or_default).
MountpointArgOrDefault(a) == IF Nth(a, 1) = None THEN Some("") ELSE Nth(a, 1)

\* env::args_os().nth(1)
MountpointArg(a) == Nth(a, 1)

\* A faulty variant that passes no mount option.
MountOptionsNone == {}

\* &[MountOption::AutoUnmount]
MountOptions == {"AutoUnmount"}

\* A faulty variant that discards the result of mount2 (no unwrap).
UnwrapIgnored(result) == "ok"

\* .unwrap() on mount2's result, as main's last statement: Ok lets main
\* return, Err panics.
UnwrapExit(result) == IF result = "Ok" THEN "ok" ELSE "panic"

\* Process exit code of each way the process ends.
ExitCode(status) ==
    CASE status = "ok" -> 0
      [] status = "panic" -> 101
      [] status = "killed" -> 137
      [] OTHER -> -1

\* A faulty variant that does not wait for the session (spawn_mount2).
SessionOverAtOnce(m) == TRUE

\* mount2 blocks in the session loop; it returns Ok once the kernel reports
\* that the filesystem is no longer mounted.
SessionOver(m) == ~m

VARIABLES
    args,          \* the command line of this run
    pc,            \* main: "start", "serving" (inside mount2), "exited"
    exit,          \* "running", or how the process ended: "ok", "panic", "killed"
    mountResult,   \* "none", or the outcome of mounting: "Ok", "Err"
    mountOpts,     \* the options mount2 was called with
    mounted,       \* the kernel has the filesystem mounted
    unmountedBy,   \* "none", "user", "drop" (session dropped), "auto" (helper)
    fs,            \* the NullFS value registered
    unique,        \* number of requests the kernel has issued
    queue,         \* requests issued, not yet read by the session
    log            \* requests the session dispatched, each with its reply

vars == << args, pc, exit, mountResult, mountOpts, mounted, unmountedBy, fs,
           unique, queue, log >>

Init ==
    /\ args \in ArgLists
    /\ pc = "start"
    /\ exit = "running"
    /\ mountResult = "none"
    /\ mountOpts = {}
    /\ mounted = FALSE
    /\ unmountedBy = "none"
    /\ fs = NullFS
    /\ unique = 0
    /\ queue = << >>
    /\ log = << >>

\* main without a mountpoint: nth(1) is None and unwrap panics.
MainNoArg ==
    /\ pc = "start"
    /\ MountpointArg(args) = None
    /\ pc' = "exited"
    /\ exit' = "panic"
    /\ UNCHANGED << args, mountResult, mountOpts, mounted, unmountedBy, fs,
                    unique, queue, log >>

\* main with a mountpoint, mounting fails: mount2 returns Err at once.
MainMountErr ==
    /\ pc = "start"
    /\ MountpointArg(args) # None
    /\ mountResult' = "Err"
    /\ mountOpts' = MountOptions
    /\ pc' = "exited"
    /\ exit' = UnwrapExit("Err")
    /\ UNCHANGED << args, mounted, unmountedBy, fs, unique, queue, log >>

\* main with a mountpoint, mounting succeeds: mount2 enters the session loop.
MainMountOk ==
    /\ pc = "start"
    /\ MountpointArg(args) # None
    /\ mountResult' = "Ok"
    /\ mountOpts' = MountOptions
    /\ mounted' = TRUE
    /\ pc' = "serving"
    /\ UNCHANGED << args, exit, unmountedBy, fs, unique, queue, log >>

\* The kernel issues a request to the mounted filesystem.
KernelSubmit(req) ==
    /\ pc = "serving"
    /\ mounted
    /\ unique < MaxRequests
    /\ unique' = unique + 1
    /\ queue' = Append(queue, [unique |-> unique + 1, req |-> req])
    /\ UNCHANGED << args, pc, exit, mountResult, mountOpts, mounted,
                    unmountedBy, fs, log >>

\* The session loop reads the next request and calls the NullFS method for
\* its kind, which replies.
SessionDispatch ==
    /\ pc = "serving"
    /\ mounted
    /\ queue # << >>
    /\ LET m == Head(queue) IN
        log' = Append(log, [unique |-> m.unique, req |-> m.req,
                            handler |-> Handler(m.req.kind),
                            reply |-> HandlerReply(m.req)])
    /\ queue' = Tail(queue)
    /\ fs' = fs
    /\ UNCHANGED << args, pc, exit, mountResult, mountOpts, mounted,
                    unmountedBy, unique >>

\* The filesystem is unmounted from outside (umount, fusermount -u).
KernelUnmount ==
    /\ pc = "serving"
    /\ mounted
    /\ mounted' = FALSE
    /\ unmountedBy' = "user"
    /\ UNCHANGED << args, pc, exit, mountResult, mountOpts, fs, unique,
                    queue, log >>

\* The session loop ends, mount2 returns Ok, unwrap passes, main returns.
\* Dropping the session unmounts whatever is still mounted.
MainReturn ==
    /\ pc = "serving"
    /\ SessionOver(mounted)
    /\ pc' = "exited"
    /\ exit' = UnwrapExit("Ok")
    /\ mounted' = FALSE
    /\ unmountedBy' = IF mounted THEN "drop" ELSE unmountedBy
    /\ UNCHANGED << args, mountResult, mountOpts, fs, unique, queue, log >>

\* Reading the kernel channel fails: the session loop returns Err, the
\* session is dropped (which unmounts), mount2 returns Err, unwrap panics.
SessionIoError ==
    /\ pc = "serving"
    /\ mounted
    /\ pc' = "exited"
    /\ exit' = UnwrapExit("Err")
    /\ mounted' = FALSE
    /\ unmountedBy' = "drop"
    /\ UNCHANGED << args, mountResult, mountOpts, fs, unique, queue, log >>

\* The process is killed while inside mount2; nothing of main runs any more.
Kill ==
    /\ pc = "serving"
    /\ pc' = "exited"
    /\ exit' = "killed"
    /\ UNCHANGED << args, mountResult, mountOpts, mounted, unmountedBy, fs,
                    unique, queue, log >>

\* MountOption::AutoUnmount: the mount helper unmounts once the process is gone.
AutoUnmountHelper ==
    /\ pc = "exited"
    /\ mounted
    /\ "AutoUnmount" \in mountOpts
    /\ mounted' = FALSE
    /\ unmountedBy' = "auto"
    /\ UNCHANGED << args, pc, exit, mountResult, mountOpts, fs, unique,
                    queue, log >>

Next ==
    \/ MainNoArg
    \/ MainMountErr
    \/ MainMountOk
    \/ \E req \in Requests : KernelSubmit(req)
    \/ SessionDispatch
    \/ KernelUnmount
    \/ MainReturn
    \/ SessionIoError
    \/ Kill
    \/ AutoUnmountHelper

Spec == Init /\ [][Next]_vars

\* The auto-unmount helper is a process of its own that keeps running.
FairSpec == Spec /\ WF_vars(AutoUnmountHelper)

TypeOK ==
    /\ args \in ArgLists
    /\ pc \in {"start", "serving", "exited"}
    /\ exit \in {"running", "ok", "panic", "killed"}
    /\ mountResult \in {"none", "Ok", "Err"}
    /\ mounted \in BOOLEAN
    /\ unique \in 0..MaxRequests + 1
    /\ Len(log) + Len(queue) = unique
    /\ { r.kind : r \in Requests } = Kinds
    /\ \A i \in 1..Len(log) : log[i].req \in Requests

\* ------------------------------------------------------- claim vocabulary

\* Positions in the log of the dispatched requests of kind k.
Served(k) == { i \in 1..Len(log) : log[i].req.kind = k }

\* Error codes of the taxonomy: not-found, not-a-directory, is-a-directory,
\* permission-denied, already-exists, no-space, invalid-argument, I/O-error,
\* stale-handle.
Taxonomy == { "ENOENT", "ENOTDIR", "EISDIR", "EACCES", "EPERM", "EEXIST",
              "ENOSPC", "EINVAL", "EIO", "ESTALE" }

\* ------------------------------------------------------------------- claims

\* C1: NullFS answers no request itself: every dispatched request, of any
\* kind, is handled by the trait's provided method and carries that method's
\* reply, and the NullFS value is the same fieldless value after any sequence
\* of requests.
C1_NullFSAnswersNothing ==
    /\ fs = NullFS
    /\ \A i \in 1..Len(log) :
        /\ log[i].handler = "Filesystem"
        /\ log[i].reply = DefaultReply(log[i].req)

\* C1 witness: requests of three different kinds have been dispatched.
C1_Witness ==
    /\ Len(log) = MaxRequests
    /\ Cardinality({ log[i].req.kind : i \in 1..Len(log) }) >= 3

\* C2: every dispatched request has exactly one reply, and that reply is a
\* success payload or an error code of the fixed taxonomy.
C2_OneReplyFromTaxonomy ==
    /\ \A i, j \in 1..Len(log) : log[i].unique = log[j].unique => i = j
    /\ \A i \in 1..Len(log) :
        \/ log[i].reply.tag \in {"ok", "opened", "entry", "attr", "data",
                                 "written", "created"}
        \/ log[i].reply.tag = "error" /\ log[i].reply.errno \in Taxonomy

\* C3: exit code 0 is reached only in a run started with a mountpoint whose
\* mount succeeded and whose filesystem was unmounted from outside while main
\* was serving; and once that unmount has happened, main, unless killed,
\* ends with exit code 0.
C3_CleanUnmountExitsZero ==
    /\ ExitCode(exit) = 0 =>
        /\ Len(args) >= 2
        /\ mountResult = "Ok"
        /\ unmountedBy = "user"
        /\ ~mounted
    /\ (pc = "exited" /\ unmountedBy = "user" /\ exit # "killed") =>
        ExitCode(exit) = 0
    /\ (pc = "serving" /\ mounted) => exit = "running"

\* C3 witness: a run that served a request, was unmounted and exited with 0.
C3_Witness ==
    /\ pc = "exited"
    /\ ExitCode(exit) = 0
    /\ unmountedBy = "user"
    /\ Len(log) >= 1

\* C4: when mounting fails the process is gone in the same step with a
\* non-zero exit code, and no request was served in that run.
C4_MountFailureExitsNonZero ==
    mountResult = "Err" =>
        /\ pc = "exited"
        /\ ExitCode(exit) # 0
        /\ exit # "running"
        /\ log = << >>
        /\ unique = 0
        /\ ~mounted

\* C4 witness: a run whose mount failed.
C4_Witness == mountResult = "Err" /\ pc = "exited" /\ exit = "panic"

\* C5: mount2 is called with exactly the option AutoUnmount, and in every run
\* whose mount succeeded, once the process is gone the filesystem is
\* eventually unmounted.
C5_AutoUnmount ==
    /\ [](mountResult # "none" => mountOpts = {"AutoUnmount"})
    /\ ((mountResult = "Ok" /\ pc = "exited") ~> ~mounted)

\* C5 witness: the process was killed while mounted and the helper unmounted.
C5_Witness ==
    /\ exit = "killed"
    /\ unmountedBy = "auto"
    /\ ~mounted
    /\ mountOpts = {"AutoUnmount"}

\* C6: getattr never fails except with stale-handle, and getattr on the root
\* inode succeeds.
C6_GetattrSucceeds ==
    \A i \in Served("getattr") :
        /\ log[i].reply.tag = "attr"
           \/ (log[i].reply.tag = "error" /\ log[i].reply.errno = "ESTALE")
        /\ log[i].req.ino = 1 => log[i].reply.tag = "attr"

\* C7: a lookup(parent, name) served after a create(parent, name) returns the
\* identifier and generation the create returned.
C7_LookupAfterCreate ==
    \A i \in Served("create") : \A j \in Served("lookup") :
        ( /\ i < j
          /\ log[j].req.ino = log[i].req.ino
          /\ log[j].req.name = log[i].req.name
          /\ \A k \in (i + 1)..(j - 1) :
                log[k].req.kind \notin {"unlink", "rmdir", "rename"} )
        => /\ log[i].reply.tag = "created"
           /\ log[j].reply.tag = "entry"
           /\ log[j].reply.ino = log[i].reply.ino
           /\ log[j].reply.gen = log[i].reply.gen

\* C8: on an open handle, a write followed immediately by a read at the same
\* offset and length returns exactly the written bytes.
C8_ReadAfterWrite ==
    \A o \in Served("open") : \A i \in Served("write") :
        ( /\ o < i
          /\ i + 1 \in Served("read")
          /\ log[o].reply.tag = "opened"
          /\ log[i].req.fh = log[o].reply.fh
          /\ log[i + 1].req.fh = log[i].req.fh
          /\ log[i + 1].req.offset = log[i].req.offset
          /\ log[i + 1].req.size = Len(log[i].req.data)
          /\ \A k \in (o + 1)..(i - 1) : log[k].req.kind # "release" )
        => /\ log[i + 1].reply.tag = "data"
           /\ log[i + 1].reply.data = log[i].req.data

\* C9: a name created and then unlinked with no handle opened on it is gone:
\* the next lookup by that name returns not-found.
C9_LookupAfterUnlink ==
    \A i \in Served("create") :
        ( /\ i + 1 \in Served("unlink")
          /\ i + 2 \in Served("lookup")
          /\ log[i + 1].req.ino = log[i].req.ino
          /\ log[i + 1].req.name = log[i].req.name
          /\ log[i + 2].req.ino = log[i].req.ino
          /\ log[i + 2].req.name = log[i].req.name )
        => /\ log[i + 2].reply.tag = "error"
           /\ log[i + 2].reply.errno = "ENOENT"

\* C10: started without a positional argument, main never attempts a mount,
\* serves no request, and ends by panicking, not with exit code 0.
C10_NoArgPanicsBeforeMount ==
    Len(args) < 2 =>
        /\ mountResult = "none"
        /\ mountOpts = {}
        /\ ~mounted
        /\ unique = 0
        /\ log = << >>
        /\ pc \in {"start", "exited"}
        /\ pc = "exited" => (exit = "panic" /\ ExitCode(exit) # 0)

\* C10 witness: the run without a mountpoint has ended in the panic.
C10_Witness == Len(args) < 2 /\ pc = "exited" /\ exit = "panic"

====
